---- MODULE Spec2Model ----
(***************************************************************************)
(* MQTTClient of src/mqtt_client.py: an awaitable wrapper around a         *)
(* callback-driven paho-mqtt client.                                       *)
(*                                                                         *)
(* Two kinds of execution contexts touch the object:                       *)
(*  - caller tasks (coroutines of one asyncio event loop): between two     *)
(*    awaits a coroutine is atomic with respect to the other coroutines;   *)
(*  - the network-loop thread that loop_start() creates for each paho      *)
(*    Client: it runs the _on_* callbacks, concurrently with the callers.  *)
(* A caller action is the code between two suspension points; a callback   *)
(* that reads and then writes the shared dictionaries is split at the      *)
(* read, so that caller code can run in between.                           *)
(***************************************************************************)
EXTENDS Integers, FiniteSets, Sequences, TLC

(* ---- bounds of the model ---- *)
MaxConnects == 2      \* connect() calls per behaviour (one Client and one temp dir each)
MaxOps      == 2      \* subscribe()/publish() calls that reach the transport
MaxMsgs     == 1      \* inbound messages delivered by the broker
MidWrap     == 2      \* the transport's message ids are 1..MidWrap and wrap around
FocusConnects == 1    \* the same three under SubSpec, PubSpec and MsgSpec
FocusOps      == 1
FocusMsgs     == 1
OpsCalls      == 2    \* connect(), subscribe() and publish() calls under OpsSpec
DupOps        == 2    \* subscribe() calls of the two tasks under DupSpec
RefuseCalls   == 3    \* connect() and subscribe() calls under RefuseSpec

Tasks    == {"t1", "t2"}
Topics   == {"A", "B"}
Clients  == 1..MaxConnects
Mids     == 1..MidWrap
NoTopic  == "-"

VARIABLES
    client,            \* self.client: 0 is None, else the Client object's serial
    is_connected,      \* self.is_connected
    temp_dir,          \* self._temp_dir: 0 is None, else the directory's serial
    connection_event,  \* self._connection_event is set
    disconnect_event,  \* self._disconnect_event is set
    subscribe_events,  \* self._subscribe_events: topic -> Event serial (0: no entry)
    publish_events,    \* self._publish_events: mid -> Event serial (0: no entry)
    publish_results,   \* self._publish_results: mid -> "none" | "ok" | "fail"
    message_callback,  \* self.message_callback is not None
    fired,             \* the per-operation Event objects that have been set
    task,              \* each caller task: where it is suspended, and its locals
    dirs,              \* the temporary directories that exist on disk
    loop,              \* per Client: its network-loop thread is running
    sess,              \* per Client: the state of its broker session
    userdata,          \* per Client: the topic in its userdata dict (NoTopic: none)
    last_mid,          \* per Client: the last message id the transport generated
    pend,              \* requests the transport has accepted and not yet reported
    flushed,           \* publish requests whose MQTTMessageInfo says is_published()
    tcb,               \* per Client: the callback its loop thread is inside of
    acks,              \* publish requests whose _on_publish has run, with its reason
    scheduled,         \* consumer invocations scheduled on the application loop
    raised,            \* callbacks that raised into the transport's loop
    nConnect, nOps, nMsgs,  \* how many of each the behaviour has used
    ev                 \* the last step: the call it started, what it returned, the
                       \* caller's locals before it (an inbound message: its payload)

vars == <<client, is_connected, temp_dir, connection_event, disconnect_event,
          subscribe_events, publish_events, publish_results, message_callback,
          fired, task, dirs, loop, sess, userdata, last_mid, pend, flushed, tcb,
          acks, scheduled, raised, nConnect, nOps, nMsgs, ev>>

objVars  == <<client, is_connected, temp_dir, connection_event, disconnect_event,
              subscribe_events, publish_events, publish_results, message_callback>>
corrVars == <<subscribe_events, publish_events, publish_results, fired>>
netVars  == <<loop, sess, userdata, last_mid, pend, flushed, tcb>>

Idle   == [pc |-> "idle", topic |-> NoTopic, mid |-> 0, sn |-> 0, evt |-> 0,
           woken |-> FALSE, dir |-> 0]
CbIdle == [pc |-> "idle", mid |-> 0, sn |-> 0, ok |-> FALSE, topic |-> NoTopic]
NoEv   == [t |-> "-", op |-> "-", call |-> FALSE, ret |-> "-", arg |-> "-", loc |-> Idle]
Solo   == {"t1"}

\* A step of task t in operation op: it starts a call, returns ret, or both.
Ev(t, op, call, ret) ==
    [t |-> t, op |-> op, call |-> call, ret |-> ret, arg |-> "-", loc |-> task[t]]
EvLoc(t, op, call, ret, loc) ==
    [t |-> t, op |-> op, call |-> call, ret |-> ret, arg |-> "-", loc |-> loc]

\* MQTTClient.__init__(iot_cert, message_callback)
Construct(callback) ==
    /\ message_callback = callback
    /\ client = 0
    /\ is_connected = FALSE
    /\ temp_dir = 0
    /\ connection_event = FALSE
    /\ disconnect_event = FALSE
    /\ subscribe_events = [tp \in Topics |-> 0]
    /\ publish_events = [m \in Mids |-> 0]
    /\ publish_results = [m \in Mids |-> "none"]
    /\ fired = {}
    /\ task = [t \in Tasks |-> Idle]
    /\ dirs = {}
    /\ loop = [c \in Clients |-> FALSE]
    /\ sess = [c \in Clients |-> "none"]
    /\ userdata = [c \in Clients |-> NoTopic]
    /\ last_mid = [c \in Clients |-> 0]
    /\ pend = {}
    /\ flushed = {}
    /\ tcb = [c \in Clients |-> CbIdle]
    /\ acks = {}
    /\ scheduled = <<>>
    /\ raised = {}
    /\ nConnect = 0
    /\ nOps = 0
    /\ nMsgs = 0
    /\ ev = NoEv

\* A client constructed with a consumer callback (src/main.py, line 86) ...
Init == Construct(TRUE)

\* ... and one constructed with message_callback=None.
InitNoConsumer == Construct(FALSE)

(* ---- asyncio.Event ---- *)

\* Event.set() completes the future of every task waiting on the event.
WakeAll(tk, pcs) == [t \in Tasks |-> IF tk[t].pc \in pcs THEN [tk[t] EXCEPT !.woken = TRUE]
                                                       ELSE tk[t]]

(* ---- the file system ---- *)

\* shutil.rmtree(d): removes d; raises (logged by the caller) when d is gone.
RmTree(d) == dirs \ {d}

\* disconnect(), lines 139-144
CleanupTemp == dirs' = IF temp_dir # 0 THEN RmTree(temp_dir) ELSE dirs

(* ---- connect() ---- *)

\* A connect() whose handler is `except OSError`: the ssl and ValueError
\* exceptions of tls_set leave connect().
ConnectCall_ExceptOSError(t, fail) ==
    LET n == nConnect + 1 IN
    /\ task[t].pc = "idle"
    /\ nConnect < MaxConnects
    /\ nConnect' = n
    /\ temp_dir' = IF fail = "mkdtemp" THEN temp_dir ELSE n
    /\ dirs'     = IF fail = "mkdtemp" THEN dirs ELSE dirs \cup {n}
    /\ client'   = IF fail \in {"mkdtemp", "write"} THEN client ELSE n
    /\ loop'     = IF fail \in {"connect", "none"} THEN [loop EXCEPT ![n] = TRUE] ELSE loop
    /\ sess'     = IF fail = "none" THEN [sess EXCEPT ![n] = "connecting"] ELSE sess
    /\ IF fail = "none"
         THEN \* line 114: Event.wait() returns at once when the event is set
              /\ task' = [task EXCEPT ![t] = [Idle EXCEPT !.pc = "conn_wait",
                                                         !.woken = connection_event,
                                                         !.dir = n]]
              /\ ev' = Ev(t, "connect", TRUE, "-")
         ELSE \* lines 117-119
              /\ task' = task
              /\ ev' = EvLoc(t, "connect", TRUE, IF fail = "tls" THEN "raise" ELSE "false",
                             [Idle EXCEPT !.dir = IF fail = "mkdtemp" THEN 0 ELSE n])
    /\ UNCHANGED <<is_connected, connection_event, disconnect_event, corrVars,
                   message_callback, userdata, last_mid, pend, flushed, tcb,
                   acks, scheduled, raised, nOps, nMsgs>>

\* Lines 69-111 up to the first suspension. `fail` is the statement that raises:
\* mkdtemp, a file write (or the host:port split), tls_set (or loop_start), the
\* transport's connect (an exception or a non-success code), or none of them.
ConnectCall(t, fail) ==
    LET n == nConnect + 1 IN
    /\ task[t].pc = "idle"
    /\ nConnect < MaxConnects
    /\ nConnect' = n
    /\ temp_dir' = IF fail = "mkdtemp" THEN temp_dir ELSE n
    /\ dirs'     = IF fail = "mkdtemp" THEN dirs ELSE dirs \cup {n}
    /\ client'   = IF fail \in {"mkdtemp", "write"} THEN client ELSE n
    /\ loop'     = IF fail \in {"connect", "none"} THEN [loop EXCEPT ![n] = TRUE] ELSE loop
    /\ sess'     = IF fail = "none" THEN [sess EXCEPT ![n] = "connecting"] ELSE sess
    /\ IF fail = "none"
         THEN \* line 114: Event.wait() returns at once when the event is set
              /\ task' = [task EXCEPT ![t] = [Idle EXCEPT !.pc = "conn_wait",
                                                         !.woken = connection_event,
                                                         !.dir = n]]
              /\ ev' = Ev(t, "connect", TRUE, "-")
         ELSE \* lines 117-119
              /\ task' = task
              /\ ev' = EvLoc(t, "connect", TRUE, "false",
                             [Idle EXCEPT !.dir = IF fail = "mkdtemp" THEN 0 ELSE n])
    /\ UNCHANGED <<is_connected, connection_event, disconnect_event, corrVars,
                   message_callback, userdata, last_mid, pend, flushed, tcb,
                   acks, scheduled, raised, nOps, nMsgs>>

\* Lines 114-115: the wait ended because the event was set.
ConnectReturnTrue(t) ==
    /\ task[t].pc = "conn_wait"
    /\ task[t].woken
    /\ task' = [task EXCEPT ![t] = Idle]
    /\ ev' = Ev(t, "connect", FALSE, "true")
    /\ UNCHANGED <<objVars, fired, dirs, netVars, acks, scheduled, raised, nConnect, nOps, nMsgs>>

\* A connect() that waits for the event without a timeout.
ConnectTimeout_Never(t) ==
    /\ FALSE
    /\ task[t].pc = "conn_wait"
    /\ UNCHANGED vars

\* Lines 114, 117-119: the 10 s timeout expired (TimeoutError is an Exception).
ConnectTimeout(t) ==
    /\ task[t].pc = "conn_wait"
    /\ ~task[t].woken
    /\ task' = [task EXCEPT ![t] = Idle]
    /\ ev' = Ev(t, "connect", FALSE, "false")
    /\ UNCHANGED <<objVars, fired, dirs, netVars, acks, scheduled, raised, nConnect, nOps, nMsgs>>

(* ---- disconnect() ---- *)

\* Client.loop_stop(): joins the loop thread, so it waits for a running callback.
LoopStop(c) == [loop EXCEPT ![c] = FALSE]

\* Line 122 false: only the cleanup of lines 139-144 runs.
DisconnectNoop(t) ==
    /\ task[t].pc = "idle"
    /\ ~(client # 0 /\ is_connected)
    /\ CleanupTemp
    /\ ev' = Ev(t, "disconnect", TRUE, "none")
    /\ UNCHANGED <<objVars, fired, task, netVars, acks, scheduled, raised, nConnect, nOps, nMsgs>>

\* Lines 122-128 up to the suspension. The transport's disconnect() either raises
\* (lines 136-137, then the cleanup) or is accepted; it sends DISCONNECT only on
\* a session that is up.
DisconnectCall(t, throws) ==
    /\ task[t].pc = "idle"
    /\ client # 0 /\ is_connected
    /\ disconnect_event' = FALSE
    /\ IF throws
         THEN /\ CleanupTemp
              /\ task' = task
              /\ sess' = sess
              /\ ev' = Ev(t, "disconnect", TRUE, "none")
         ELSE /\ dirs' = dirs
              /\ task' = [task EXCEPT ![t] = [Idle EXCEPT !.pc = "disc_wait"]]
              /\ sess' = IF sess[client] = "up" THEN [sess EXCEPT ![client] = "closing"]
                                                ELSE sess
              /\ ev' = Ev(t, "disconnect", TRUE, "-")
    /\ UNCHANGED <<client, is_connected, temp_dir, connection_event, corrVars,
                   message_callback, loop, userdata, last_mid, pend, flushed, tcb,
                   acks, scheduled, raised, nConnect, nOps, nMsgs>>

\* Lines 129-131 (the event was set) or 132-135 (the 5 s timeout), then 139-144.
DisconnectFinish(t) ==
    /\ loop' = LoopStop(client)
    /\ is_connected' = FALSE
    /\ CleanupTemp
    /\ task' = [task EXCEPT ![t] = Idle]
    /\ ev' = Ev(t, "disconnect", FALSE, "none")
    /\ UNCHANGED <<client, temp_dir, connection_event, disconnect_event, corrVars,
                   message_callback, sess, userdata, last_mid, pend, flushed, tcb,
                   acks, scheduled, raised, nConnect, nOps, nMsgs>>

DisconnectAcked(t) ==
    /\ task[t].pc = "disc_wait"
    /\ task[t].woken
    /\ tcb[client].pc = "idle"
    /\ DisconnectFinish(t)

DisconnectTimeout(t) ==
    /\ task[t].pc = "disc_wait"
    /\ ~task[t].woken
    /\ tcb[client].pc = "idle"
    /\ DisconnectFinish(t)

(* ---- the transport's loop thread: connection callbacks ---- *)

\* The loop thread of Client c is running and is not inside a callback.
CanCall(c) == loop[c] /\ tcb[c].pc = "idle"

\* _on_connect, lines 33-39, on the CONNACK of Client c.
OnConnect(c, rc) ==
    /\ CanCall(c)
    /\ sess[c] = "connecting"
    /\ IF rc = 0
         THEN /\ is_connected' = TRUE
              /\ connection_event' = TRUE
              /\ task' = WakeAll(task, {"conn_wait"})
              /\ sess' = [sess EXCEPT ![c] = "up"]
         ELSE /\ UNCHANGED <<is_connected, connection_event, task>>
              /\ sess' = [sess EXCEPT ![c] = "refused"]
    /\ ev' = NoEv
    /\ UNCHANGED <<client, temp_dir, disconnect_event, corrVars, message_callback,
                   dirs, loop, userdata, last_mid, pend, flushed, tcb, acks, scheduled,
                   raised, nConnect, nOps, nMsgs>>

\* _on_disconnect, lines 41-45: the session of Client c ended, on request
\* ("closing"), by the broker after a refused CONNACK, or because it was lost.
OnDisconnect(c) ==
    /\ CanCall(c)
    /\ sess[c] \in {"up", "closing", "refused"}
    /\ is_connected' = FALSE
    /\ connection_event' = FALSE
    /\ disconnect_event' = TRUE
    /\ task' = WakeAll(task, {"disc_wait"})
    /\ sess' = [sess EXCEPT ![c] = IF sess[c] = "closing" THEN "closed" ELSE "lost"]
    /\ ev' = NoEv
    /\ UNCHANGED <<client, temp_dir, corrVars, message_callback, dirs, loop, userdata,
                   last_mid, pend, flushed, tcb, acks, scheduled, raised, nConnect, nOps, nMsgs>>

\* The loop thread reconnects a session it lost (loop_forever's retry).
Reconnect(c) ==
    /\ CanCall(c)
    /\ sess[c] = "lost"
    /\ sess' = [sess EXCEPT ![c] = "connecting"]
    /\ ev' = NoEv
    /\ UNCHANGED <<objVars, fired, task, dirs, loop, userdata, last_mid, pend, flushed,
                   tcb, acks, scheduled, raised, nConnect, nOps, nMsgs>>

(* ---- the transport's requests ---- *)

\* Client._mid_generate: the next message id; it wraps around to 1.
NextMid(m) == (m % MidWrap) + 1

\* The Client has a socket: subscribe() and publish() hand the packet to the
\* loop thread; without one they return MQTT_ERR_NO_CONN and queue nothing.
HasSocket(c) == sess[c] \in {"connecting", "up", "closing"}

Req(k, c, mid, sn) == [k |-> k, c |-> c, mid |-> mid, sn |-> sn]

\* _on_publish has run to its end for request sn, called with a success reason
\* code (ok) or a failure code.
Ack(sn, ok) == [sn |-> sn, ok |-> ok]

\* Lines 147 and 174: the operation needs is_connected and a client.
Connected == is_connected /\ client # 0

(* ---- subscribe(topic) ---- *)

\* A subscribe() that registers the Event before it looks at the state.
SubscribeNotConnected_Registers(t, topic) ==
    /\ task[t].pc = "idle"
    /\ ~Connected
    /\ subscribe_events' = [subscribe_events EXCEPT ![topic] = nOps + 1]
    /\ ev' = EvLoc(t, "subscribe", TRUE, "not_connected", [Idle EXCEPT !.topic = topic])
    /\ UNCHANGED <<client, is_connected, temp_dir, connection_event, disconnect_event,
                   publish_events, publish_results, message_callback, fired, task, dirs,
                   netVars, acks, scheduled, raised, nConnect, nOps, nMsgs>>

\* Lines 147-148.
SubscribeNotConnected(t, topic) ==
    /\ task[t].pc = "idle"
    /\ ~Connected
    /\ ev' = EvLoc(t, "subscribe", TRUE, "not_connected", [Idle EXCEPT !.topic = topic])
    /\ UNCHANGED <<objVars, fired, task, dirs, netVars, acks, scheduled, raised,
                   nConnect, nOps, nMsgs>>

\* A subscribe() that returns False on a refused request without line 158.
SubscribeCall_NoRollback(t, topic) ==
    LET e == nOps + 1
        mid == NextMid(last_mid[client]) IN
    /\ task[t].pc = "idle"
    /\ Connected
    /\ nOps' = e
    /\ userdata' = [userdata EXCEPT ![client] = topic]
    /\ IF HasSocket(client)
         THEN /\ subscribe_events' = [subscribe_events EXCEPT ![topic] = e]
              /\ last_mid' = [last_mid EXCEPT ![client] = mid]
              /\ pend' = pend \cup {Req("sub", client, mid, e)}
              /\ task' = [task EXCEPT ![t] = [Idle EXCEPT !.pc = "sub_wait", !.topic = topic,
                                                         !.mid = mid, !.sn = e, !.evt = e]]
              /\ ev' = Ev(t, "subscribe", TRUE, "-")
         ELSE /\ subscribe_events' = [subscribe_events EXCEPT ![topic] = e]
              /\ UNCHANGED <<last_mid, pend, task>>
              /\ ev' = EvLoc(t, "subscribe", TRUE, "false", [Idle EXCEPT !.topic = topic])
    /\ UNCHANGED <<client, is_connected, temp_dir, connection_event, disconnect_event,
                   publish_events, publish_results, message_callback, fired, dirs,
                   loop, sess, flushed, tcb, acks, scheduled, raised, nConnect, nMsgs>>

\* Lines 150-164 up to the suspension: register the Event, set the userdata,
\* hand the request to the transport; lines 157-160 when it is refused.
SubscribeCall(t, topic) ==
    LET e == nOps + 1
        mid == NextMid(last_mid[client]) IN
    /\ task[t].pc = "idle"
    /\ Connected
    /\ nOps' = e
    /\ userdata' = [userdata EXCEPT ![client] = topic]
    /\ IF HasSocket(client)
         THEN /\ subscribe_events' = [subscribe_events EXCEPT ![topic] = e]
              /\ last_mid' = [last_mid EXCEPT ![client] = mid]
              /\ pend' = pend \cup {Req("sub", client, mid, e)}
              /\ task' = [task EXCEPT ![t] = [Idle EXCEPT !.pc = "sub_wait", !.topic = topic,
                                                         !.mid = mid, !.sn = e, !.evt = e]]
              /\ ev' = Ev(t, "subscribe", TRUE, "-")
         ELSE /\ subscribe_events' = [subscribe_events EXCEPT ![topic] = 0]
              /\ UNCHANGED <<last_mid, pend, task>>
              /\ ev' = EvLoc(t, "subscribe", TRUE, "false", [Idle EXCEPT !.topic = topic])
    /\ UNCHANGED <<client, is_connected, temp_dir, connection_event, disconnect_event,
                   publish_events, publish_results, message_callback, fired, dirs,
                   loop, sess, flushed, tcb, acks, scheduled, raised, nConnect, nMsgs>>

\* `del self._subscribe_events[topic]` (lines 165 and 169) raises KeyError,
\* which subscribe() does not catch, when the entry is gone.
SubscribeFinish(t, ret) ==
    LET topic == task[t].topic IN
    /\ subscribe_events' = [subscribe_events EXCEPT ![topic] = 0]
    /\ task' = [task EXCEPT ![t] = Idle]
    /\ ev' = Ev(t, "subscribe", FALSE, IF subscribe_events[topic] = 0 THEN "raise" ELSE ret)
    /\ UNCHANGED <<client, is_connected, temp_dir, connection_event, disconnect_event,
                   publish_events, publish_results, message_callback, fired, dirs,
                   netVars, acks, scheduled, raised, nConnect, nOps, nMsgs>>

\* Lines 164-167: the Event this call waits on was set.
SubscribeAcked(t) ==
    /\ task[t].pc = "sub_wait"
    /\ task[t].evt \in fired
    /\ SubscribeFinish(t, "true")

\* A subscribe() whose timeout branch forgets the `del`.
SubscribeTimeout_NoCleanup(t) ==
    /\ task[t].pc = "sub_wait"
    /\ task[t].evt \notin fired
    /\ task' = [task EXCEPT ![t] = Idle]
    /\ ev' = Ev(t, "subscribe", FALSE, "false")
    /\ UNCHANGED <<objVars, fired, dirs, netVars, acks, scheduled, raised, nConnect, nOps, nMsgs>>

\* Lines 168-171: the 5 s timeout expired.
SubscribeTimeout(t) ==
    /\ task[t].pc = "sub_wait"
    /\ task[t].evt \notin fired
    /\ SubscribeFinish(t, "false")

(* ---- publish(topic, payload) ---- *)

\* Lines 174-175.
PublishNotConnected(t) ==
    /\ task[t].pc = "idle"
    /\ ~Connected
    /\ ev' = Ev(t, "publish", TRUE, "not_connected")
    /\ UNCHANGED <<objVars, fired, task, dirs, netVars, acks, scheduled, raised,
                   nConnect, nOps, nMsgs>>

\* Lines 177-182: the transport's publish() returns the message id; the loop
\* thread sends the packet when the Client has a socket, and without one the
\* message is not queued and is never reported as published.
PublishCall(t) ==
    LET sn == nOps + 1
        mid == NextMid(last_mid[client]) IN
    /\ task[t].pc = "idle"
    /\ Connected
    /\ nOps' = sn
    /\ last_mid' = [last_mid EXCEPT ![client] = mid]
    /\ pend' = IF HasSocket(client) THEN pend \cup {Req("pub", client, mid, sn)} ELSE pend
    /\ task' = [task EXCEPT ![t] = [Idle EXCEPT !.pc = "pub_issued", !.mid = mid, !.sn = sn]]
    /\ ev' = Ev(t, "publish", TRUE, "-")
    /\ UNCHANGED <<objVars, fired, dirs, loop, sess, userdata, flushed, tcb, acks, scheduled,
                   raised, nConnect, nMsgs>>

\* A publish() that creates its Event before it asks is_published().
PublishFlushed_Registers(t) ==
    /\ task[t].pc = "pub_issued"
    /\ task[t].sn \in flushed
    /\ publish_events' = [publish_events EXCEPT ![task[t].mid] = task[t].sn]
    /\ task' = [task EXCEPT ![t] = Idle]
    /\ ev' = Ev(t, "publish", FALSE, "true")
    /\ UNCHANGED <<client, is_connected, temp_dir, connection_event, disconnect_event,
                   subscribe_events, publish_results, message_callback, fired, dirs,
                   netVars, acks, scheduled, raised, nConnect, nOps, nMsgs>>

\* Lines 184 and 212-214: is_published() is already true.
PublishFlushed(t) ==
    /\ task[t].pc = "pub_issued"
    /\ task[t].sn \in flushed
    /\ task' = [task EXCEPT ![t] = Idle]
    /\ ev' = Ev(t, "publish", FALSE, "true")
    /\ UNCHANGED <<objVars, fired, dirs, netVars, acks, scheduled, raised, nConnect, nOps, nMsgs>>

\* Lines 184-189 up to the suspension: register the Event under the message id.
PublishRegister(t) ==
    /\ task[t].pc = "pub_issued"
    /\ task[t].sn \notin flushed
    /\ publish_events' = [publish_events EXCEPT ![task[t].mid] = task[t].sn]
    /\ task' = [task EXCEPT ![t].pc = "pub_wait", ![t].evt = task[t].sn]
    /\ ev' = Ev(t, "publish", FALSE, "-")
    /\ UNCHANGED <<client, is_connected, temp_dir, connection_event, disconnect_event,
                   subscribe_events, publish_results, message_callback, fired, dirs,
                   netVars, acks, scheduled, raised, nConnect, nOps, nMsgs>>

\* Lines 189-202: the Event was set. `del self._publish_events[mid]` raises
\* KeyError, which publish() does not catch, when the entry is gone.
PublishAcked(t) ==
    LET mid == task[t].mid
        success == publish_results[mid] = "ok" IN
    /\ task[t].pc = "pub_wait"
    /\ task[t].evt \in fired
    /\ IF publish_events[mid] = 0
         THEN /\ UNCHANGED <<publish_events, publish_results>>
              /\ ev' = Ev(t, "publish", FALSE, "raise")
         ELSE /\ publish_events' = [publish_events EXCEPT ![mid] = 0]
              /\ publish_results' = [publish_results EXCEPT ![mid] = "none"]
              /\ ev' = Ev(t, "publish", FALSE, IF success THEN "true" ELSE "false")
    /\ task' = [task EXCEPT ![t] = Idle]
    /\ UNCHANGED <<client, is_connected, temp_dir, connection_event, disconnect_event,
                   subscribe_events, message_callback, fired, dirs, netVars, acks, scheduled,
                   raised, nConnect, nOps, nMsgs>>

\* Lines 204-211: the 5 s timeout expired.
PublishTimeout(t) ==
    LET mid == task[t].mid IN
    /\ task[t].pc = "pub_wait"
    /\ task[t].evt \notin fired
    /\ publish_events' = [publish_events EXCEPT ![mid] = 0]
    /\ publish_results' = [publish_results EXCEPT ![mid] = "none"]
    /\ task' = [task EXCEPT ![t] = Idle]
    /\ ev' = Ev(t, "publish", FALSE, "false")
    /\ UNCHANGED <<client, is_connected, temp_dir, connection_event, disconnect_event,
                   subscribe_events, message_callback, fired, dirs, netVars, acks, scheduled,
                   raised, nConnect, nOps, nMsgs>>

(* ---- the transport's loop thread: acknowledgement callbacks ---- *)

\* A callback of Client c raised: paho logs and re-raises, the loop thread ends.
CallbackRaised(c, name) ==
    /\ raised' = raised \cup {name}
    /\ loop' = [loop EXCEPT ![c] = FALSE]
    /\ tcb' = [tcb EXCEPT ![c] = CbIdle]

\* _on_subscribe, lines 58-59: on a SUBACK the callback reads the userdata and
\* looks the topic up; it ends here when there is nothing to set.
OnSubscribe(c, r) ==
    LET topic == userdata[c] IN
    /\ CanCall(c)
    /\ r \in pend /\ r.k = "sub" /\ r.c = c
    /\ sess[c] = "up"
    /\ pend' = pend \ {r}
    /\ tcb' = IF topic # NoTopic /\ subscribe_events[topic] # 0
                THEN [tcb EXCEPT ![c] = [CbIdle EXCEPT !.pc = "sub_set", !.topic = topic]]
                ELSE tcb
    /\ ev' = NoEv
    /\ UNCHANGED <<objVars, fired, task, dirs, loop, sess, userdata, last_mid, flushed,
                   acks, scheduled, raised, nConnect, nOps, nMsgs>>

\* _on_subscribe, line 60: self._subscribe_events[topic].set()
OnSubscribeSet(c) ==
    LET topic == tcb[c].topic IN
    /\ loop[c]
    /\ tcb[c].pc = "sub_set"
    /\ IF subscribe_events[topic] = 0
         THEN /\ CallbackRaised(c, "on_subscribe")
              /\ fired' = fired
         ELSE /\ fired' = fired \cup {subscribe_events[topic]}
              /\ tcb' = [tcb EXCEPT ![c] = CbIdle]
              /\ UNCHANGED <<raised, loop>>
    /\ ev' = NoEv
    /\ UNCHANGED <<objVars, task, dirs, sess, userdata, last_mid, pend, flushed,
                   acks, scheduled, nConnect, nOps, nMsgs>>

\* An _on_publish without the membership test of line 64.
OnPublish_NoTest(c, r, ok) ==
    /\ CanCall(c)
    /\ r \in pend /\ r.k = "pub" /\ r.c = c
    /\ HasSocket(c)
    /\ pend' = pend \ {r}
    /\ tcb' = [tcb EXCEPT ![c] = [CbIdle EXCEPT
                  !.pc = "pub_set",
                  !.mid = r.mid, !.sn = r.sn, !.ok = ok]]
    /\ acks' = acks
    /\ ev' = NoEv
    /\ UNCHANGED <<objVars, fired, task, dirs, loop, sess, userdata, last_mid, flushed,
                   scheduled, raised, nConnect, nOps, nMsgs>>

\* _on_publish, line 64: the loop thread has written message r to the socket and
\* reports it with a reason code; the callback looks the message id up. The
\* transport marks the message as published when the callback has returned.
OnPublish(c, r, ok) ==
    /\ CanCall(c)
    /\ r \in pend /\ r.k = "pub" /\ r.c = c
    /\ HasSocket(c)
    /\ pend' = pend \ {r}
    /\ tcb' = [tcb EXCEPT ![c] = [CbIdle EXCEPT
                  !.pc = IF publish_events[r.mid] # 0 THEN "pub_set" ELSE "pub_flag",
                  !.mid = r.mid, !.sn = r.sn, !.ok = ok]]
    /\ acks' = IF publish_events[r.mid] # 0 THEN acks ELSE acks \cup {Ack(r.sn, ok)}
    /\ ev' = NoEv
    /\ UNCHANGED <<objVars, fired, task, dirs, loop, sess, userdata, last_mid, flushed,
                   scheduled, raised, nConnect, nOps, nMsgs>>

\* _on_publish, lines 65-66, after caller code may have run:
\*   self._publish_results[mid] = reason_code == MQTT_ERR_SUCCESS
\*   self._publish_events[mid].set()
OnPublishSet(c) ==
    LET mid == tcb[c].mid IN
    /\ loop[c]
    /\ tcb[c].pc = "pub_set"
    /\ acks' = acks \cup {Ack(tcb[c].sn, tcb[c].ok)}
    /\ publish_results' = [publish_results EXCEPT ![mid] = IF tcb[c].ok THEN "ok" ELSE "fail"]
    /\ IF publish_events[mid] = 0
         THEN /\ CallbackRaised(c, "on_publish")
              /\ fired' = fired
         ELSE /\ fired' = fired \cup {publish_events[mid]}
              /\ tcb' = [tcb EXCEPT ![c].pc = "pub_flag"]
              /\ UNCHANGED <<raised, loop>>
    /\ ev' = NoEv
    /\ UNCHANGED <<client, is_connected, temp_dir, connection_event, disconnect_event,
                   subscribe_events, publish_events, message_callback, task, dirs, sess,
                   userdata, last_mid, pend, flushed, scheduled, nConnect, nOps, nMsgs>>

\* The transport marks the message as published: is_published() is true from here.
MarkPublished(c) ==
    /\ loop[c]
    /\ tcb[c].pc = "pub_flag"
    /\ flushed' = flushed \cup {tcb[c].sn}
    /\ tcb' = [tcb EXCEPT ![c] = CbIdle]
    /\ ev' = NoEv
    /\ UNCHANGED <<objVars, fired, task, dirs, loop, sess, userdata, last_mid, pend,
                   acks, scheduled, raised, nConnect, nOps, nMsgs>>

(* ---- the transport's loop thread: inbound messages ---- *)

\* The payloads the broker delivers: bytes, named by their text; "<ff>" is the
\* byte 0xff, which is not UTF-8.
Payloads == {"{\"battery\":80}", "not-json", "<ff>"}

\* bytes.decode(): the text of the payload, or UnicodeDecodeError.
Utf8Decode(p) == IF p = "<ff>" THEN [ok |-> FALSE, text |-> ""] ELSE [ok |-> TRUE, text |-> p]

\* json.loads(text): the decoded value, or JSONDecodeError.
JsonLoads(text) ==
    CASE text = "{\"battery\":80}" -> [ok |-> TRUE, val |-> [kind |-> "dict", v |-> "battery=80"]]
      [] OTHER                     -> [ok |-> FALSE, val |-> [kind |-> "none", v |-> ""]]

\* Lines 49-52: the payload handed on, or the UnicodeDecodeError that neither
\* `except json.JSONDecodeError` nor anything else in _on_message catches.
DecodePayload(p) ==
    LET d == Utf8Decode(p) IN
    IF ~d.ok THEN [ok |-> FALSE, val |-> [kind |-> "none", v |-> ""]]
    ELSE IF JsonLoads(d.text).ok THEN [ok |-> TRUE, val |-> JsonLoads(d.text).val]
    ELSE [ok |-> TRUE, val |-> [kind |-> "str", v |-> d.text]]

\* asyncio.create_task(coro), line 55: schedules coro on the running event loop
\* of the calling thread, and raises RuntimeError when that thread has none.
CreateTask(has_running_loop, sched, coro) ==
    IF has_running_loop THEN [ok |-> TRUE, sched |-> Append(sched, coro)]
                        ELSE [ok |-> FALSE, sched |-> sched]

\* _on_message, lines 47-55, called by the loop thread of Client c (a thread that
\* runs no asyncio event loop).
OnMessage(c, topic, p) ==
    LET d == DecodePayload(p)
        r == CreateTask(FALSE, scheduled, [topic |-> topic, payload |-> d.val]) IN
    /\ CanCall(c)
    /\ sess[c] = "up"
    /\ nMsgs' = nMsgs + 1
    /\ IF message_callback
         THEN IF d.ok /\ r.ok
                THEN /\ scheduled' = r.sched
                     /\ UNCHANGED <<raised, loop, tcb>>
                ELSE /\ CallbackRaised(c, "on_message")
                     /\ scheduled' = scheduled
         ELSE UNCHANGED <<scheduled, raised, loop, tcb>>
    /\ ev' = [NoEv EXCEPT !.op = "on_message", !.arg = p,
                          !.loc = [Idle EXCEPT !.topic = topic]]
    /\ UNCHANGED <<acks, objVars, fired, task, dirs, sess, userdata, last_mid, pend, flushed,
                   nConnect, nOps>>

(* ---- the specifications ---- *)

\* The outcomes of lines 69-111: the statement that raises, or none.
ConnectFails == {"mkdtemp", "write", "tls", "connect", "none"}

\* connect() and disconnect() of one caller task, at most mc connect() calls, and
\* the connection callbacks of the loop threads.
LifeStep(mc) ==
    \/ \E t \in Solo, f \in ConnectFails : nConnect < mc /\ ConnectCall(t, f)
    \/ \E t \in Solo : ConnectReturnTrue(t)
    \/ \E t \in Solo : ConnectTimeout(t)
    \/ \E t \in Solo : DisconnectNoop(t)
    \/ \E t \in Solo, b \in BOOLEAN : DisconnectCall(t, b)
    \/ \E t \in Solo : DisconnectAcked(t)
    \/ \E t \in Solo : DisconnectTimeout(t)
    \/ \E c \in Clients, rc \in {0, 5} : OnConnect(c, rc)
    \/ \E c \in Clients : OnDisconnect(c)
    \/ \E c \in Clients : Reconnect(c)

\* subscribe() of the caller tasks ts, at most mo operations, and _on_subscribe.
SubStepOf(ts, mo) ==
    \/ \E t \in ts, tp \in Topics : SubscribeNotConnected(t, tp)
    \/ \E t \in ts, tp \in Topics : nOps < mo /\ SubscribeCall(t, tp)
    \/ \E t \in ts : SubscribeAcked(t)
    \/ \E t \in ts : SubscribeTimeout(t)
    \/ \E c \in Clients, r \in pend : OnSubscribe(c, r)
    \/ \E c \in Clients : OnSubscribeSet(c)

\* subscribe() of one caller task.
SubStep(mo) == SubStepOf(Solo, mo)

\* publish() of the caller task, at most mo operations, and _on_publish.
PubStep(mo) ==
    \/ \E t \in Solo : PublishNotConnected(t)
    \/ \E t \in Solo : nOps < mo /\ PublishCall(t)
    \/ \E t \in Solo : PublishFlushed(t)
    \/ \E t \in Solo : PublishRegister(t)
    \/ \E t \in Solo : PublishAcked(t)
    \/ \E t \in Solo : PublishTimeout(t)
    \/ \E c \in Clients, r \in pend, ok \in BOOLEAN : OnPublish(c, r, ok)
    \/ \E c \in Clients : OnPublishSet(c)
    \/ \E c \in Clients : MarkPublished(c)

\* _on_message, at most mm inbound messages.
MsgStep(mm) ==
    \E c \in Clients, tp \in Topics, p \in Payloads : nMsgs < mm /\ OnMessage(c, tp, p)

\* The whole client.
Next == LifeStep(MaxConnects) \/ SubStep(MaxOps) \/ PubStep(MaxOps) \/ MsgStep(MaxMsgs)

Spec == Init /\ [][Next]_vars

\* The connection lifecycle alone.
LifeNext == LifeStep(MaxConnects)

LifeSpec == Init /\ [][LifeNext]_vars

\* The lifecycle with subscribe, with publish, and with inbound messages (with
\* and without a consumer).
SubNext == LifeStep(FocusConnects) \/ SubStep(FocusOps)

SubSpec == Init /\ [][SubNext]_vars

PubNext == LifeStep(FocusConnects) \/ PubStep(FocusOps)

PubSpec == Init /\ [][PubNext]_vars

MsgNext == LifeStep(FocusConnects) \/ MsgStep(FocusMsgs)

MsgSpec == (Init \/ InitNoConsumer) /\ [][MsgNext]_vars

\* The lifecycle with enough publishes for a message id to come round again.
WrapNext == LifeStep(FocusConnects) \/ PubStep(MidWrap + 1)

WrapSpec == Init /\ [][WrapNext]_vars

\* The lifecycle with subscribe and publish: at most OpsCalls calls of connect(),
\* subscribe() and publish() together.
OpsNext ==
    \/ LifeStep(OpsCalls - nOps)
    \/ SubStep(OpsCalls - nConnect)
    \/ PubStep(OpsCalls - nConnect)

OpsSpec == Init /\ [][OpsNext]_vars

\* Two caller tasks whose subscribe() calls overlap (the coroutines of
\* src/main.py are free to run concurrently), on one connection.
DupNext == LifeStep(FocusConnects) \/ SubStepOf(Tasks, DupOps)

DupSpec == Init /\ [][DupNext]_vars

\* subscribe() on a client whose connect() may have been called again, so that
\* the Client that self.client names can be one without a socket: at most
\* RefuseCalls calls of connect() and subscribe() together.
RefuseNext == LifeStep(RefuseCalls - nOps) \/ SubStep(RefuseCalls - nConnect)

RefuseSpec == Init /\ [][RefuseNext]_vars

\* The scheduling the code relies on: the event loop resumes the caller when its
\* wait has ended (by its event or by its timeout), and a loop thread that is
\* inside a callback finishes it. Nothing makes the broker acknowledge anything.
Resume(t) ==
    \/ ConnectReturnTrue(t) \/ ConnectTimeout(t)
    \/ DisconnectAcked(t) \/ DisconnectTimeout(t)
    \/ SubscribeAcked(t) \/ SubscribeTimeout(t)
    \/ PublishFlushed(t) \/ PublishRegister(t) \/ PublishAcked(t) \/ PublishTimeout(t)

CallerResumes == \A t \in Solo : WF_vars(Resume(t))

CallbackFinishes ==
    \A c \in Clients : WF_vars(OnSubscribeSet(c) \/ OnPublishSet(c) \/ MarkPublished(c))

FairOpsSpec == OpsSpec /\ CallerResumes /\ CallbackFinishes

(***************************************************************************)
(* The claims.                                                             *)
(***************************************************************************)

\* C1: when connect() returns true is_connected is true, and when it returns
\* false is_connected is false, at the moment it returns, whatever the history of
\* the client.
C1_ConnectResultIsState ==
    (ev.op = "connect" /\ ev.ret \in {"true", "false"}) => (is_connected <=> ev.ret = "true")

\* C2: when connect() returns false, the temporary directory that this call
\* created no longer exists.
C2_FailedConnectLeavesNoCredentials ==
    (ev.op = "connect" /\ ev.ret = "false" /\ ev.loc.dir # 0) => ev.loc.dir \notin dirs

\* C3: a subscribe() or publish() called while not Connected fails at once with
\* the not-connected error and changes neither the transport (no request, no
\* message id, no userdata) nor the three pending-operation maps.
C3_NotConnectedFailsUntouched ==
    [][(ev'.call /\ ev'.op \in {"subscribe", "publish"} /\ ~Connected)
          => /\ ev'.ret = "not_connected"
             /\ UNCHANGED <<pend, last_mid, userdata, sess, subscribe_events,
                            publish_events, publish_results>>]_vars

\* C3's case: the call was refused on a client that had been connected before.
C3_Witness == ev.ret = "not_connected" /\ client # 0 /\ ~is_connected

\* C4: when publish() finds is_published() true at line 184, that same step
\* returns true and leaves _publish_events and _publish_results as they were.
C4_FlushedPublishReturnsAtOnce ==
    [][\A t \in Tasks :
          (task[t].pc = "pub_issued" /\ task[t].sn \in flushed /\ task'[t] # task[t])
             => /\ ev'.op = "publish" /\ ev'.t = t /\ ev'.ret = "true"
                /\ UNCHANGED <<publish_events, publish_results>>]_vars

\* C4's case: publish() returned from the is_published() branch.
C4_Witness ==
    ev.op = "publish" /\ ev.ret = "true" /\ ev.loc.pc = "pub_issued" /\ ev.loc.sn \in flushed

\* C5: an _on_publish callback that fires for a message whose own publish() is
\* over (it timed out and cleaned up) is a no-op: it finds no Event to set, even
\* when a later publish() with the same message id has registered one.
C5_LateAckCompletesNothing ==
    [][\A c \in Clients :
          (/\ tcb[c].pc = "idle"
           /\ tcb'[c].pc \in {"pub_set", "pub_flag"}
           /\ \A t \in Tasks : task[t].sn # tcb'[c].sn)
             => tcb'[c].pc = "pub_flag"]_vars

\* C6: a disconnect() called right after a disconnect() has returned returns at
\* once, sends no disconnect request, stops no loop, leaves is_connected false
\* and the pending-operation maps unchanged.
C6_SecondDisconnectIsNoop ==
    [][(ev.op = "disconnect" /\ ev.ret = "none" /\ ev'.op = "disconnect" /\ ev'.call)
          => /\ ev'.ret = "none"
             /\ ~is_connected'
             /\ UNCHANGED <<sess, loop, subscribe_events, publish_events,
                            publish_results>>]_vars

C8_Handed(p) == IF JsonLoads(p).ok THEN JsonLoads(p).val ELSE [kind |-> "str", v |-> p]

\* C8: for every inbound message, a registered consumer is handed (topic, p) with
\* p decoded as above; without a consumer the message is dropped and nothing
\* changes.
C8_MessageReachesConsumer ==
    [][ev'.op = "on_message"
          => IF message_callback
               THEN scheduled' = Append(scheduled, [topic |-> ev'.loc.topic,
                                                    payload |-> C8_Handed(ev'.arg)])
               ELSE UNCHANGED <<objVars, corrVars, netVars, scheduled, raised, dirs>>]_vars

\* C9: every call of connect, disconnect, subscribe and publish returns, even if
\* the broker never acknowledges anything.
C9_EveryCallReturns ==
    \A t \in Solo : (task[t].pc # "idle") ~> (task[t].pc = "idle")

\* C9's case: a wait ended by its timeout, no acknowledgement having arrived.
C9_Witness ==
    /\ ev.ret = "false"
    /\ ev.loc.pc \in {"conn_wait", "sub_wait", "pub_wait"}
    /\ ~ev.loc.woken /\ ev.loc.evt \notin fired

\* C10: whenever no publish() call is in flight, _publish_events and
\* _publish_results are empty.
C10_NoPublishRecordOutlivesItsCall ==
    (\A t \in Tasks : task[t].pc \notin {"pub_issued", "pub_wait"})
       => (\A m \in Mids : publish_events[m] = 0 /\ publish_results[m] = "none")

\* C11: a subscribe() or publish() that is waiting for its acknowledgement still
\* owns the pending record of its key: the Event registered under its topic (its
\* message id) is the one it waits on, whatever calls were issued after it.
C11_OnePendingRecordPerKey ==
    \A t \in Tasks :
       /\ task[t].pc = "sub_wait" => subscribe_events[task[t].topic] = task[t].evt
       /\ task[t].pc = "pub_wait" => publish_events[task[t].mid] = task[t].evt

\* C12: when a disconnect() that was called while Connected returns, by the
\* acknowledgement, by the timeout or after an error of the transport's
\* disconnect request, is_connected is false and the loop of the client is
\* stopped.
C12_DisconnectAlwaysDisconnects ==
    [][(ev'.op = "disconnect" /\ ev'.ret = "none" /\ (ev'.call => Connected))
          => (~is_connected' /\ ~loop'[client'])]_vars

\* C13: when a disconnect() returns, its own removal not having failed, no
\* temporary directory made by an earlier connect() exists any more.
C13_TeardownRemovesAllCredentials ==
    [][(ev'.op = "disconnect" /\ ev'.ret = "none" /\ (temp_dir # 0 => temp_dir \in dirs))
          => dirs' = {}]_vars

C15_EveryMessageScheduledOnce ==
    message_callback => (Len(scheduled) = nMsgs /\ "on_message" \notin raised)

\* C16: when two subscribes to distinct topics overlap, the SUBACK of the one's
\* request never selects the Event of the other: _on_subscribe, called for the
\* request of a waiting subscribe(A), does not go on to set the Event on which
\* another task's subscribe(B), B # A, is waiting.
C16_DistinctTopicsAreIndependent ==
    [][\A c \in Clients, r \in pend \ pend', t \in Tasks, u \in Tasks :
          (/\ r.k = "sub" /\ r.c = c
           /\ task[t].pc = "sub_wait" /\ task[t].sn = r.sn
           /\ u # t /\ task[u].pc = "sub_wait" /\ task[u].topic # task[t].topic
           /\ tcb'[c].pc = "sub_set")
             => subscribe_events[tcb'[c].topic] # task[u].evt]_vars

\* C17: when a publish() that registered its Event (it was not flushed at line
\* 184) returns, and _on_publish has run for its message by then, it returns the
\* result of that acknowledgement: true for a success code, false otherwise. The
\* callback may have run before the Event was registered.
C17_PublishReturnsAckResult ==
    (ev.op = "publish" /\ ev.ret # "-" /\ ev.loc.pc = "pub_wait")
       => \A a \in acks : a.sn = ev.loc.sn => ev.ret = (IF a.ok THEN "true" ELSE "false")

\* C18: is_connected is written only by the transport's callbacks: it becomes
\* true only in _on_connect with a success code and false only in
\* _on_disconnect, never in a step of connect, disconnect, subscribe or publish.
C18_OnlyCallbacksWriteState ==
    [][is_connected' # is_connected
          => \E c \in Clients : OnConnect(c, 0) \/ OnDisconnect(c)]_vars

\* C19: a connect() called while the client is Connected, or while a connect()
\* is waiting, creates no second transport client, no second credential
\* directory and no second connection request.
C19_OneConnectAttemptAtATime ==
    [][(/\ ev'.op = "connect" /\ ev'.call
        /\ (Connected \/ \E t \in Tasks : task[t].pc = "conn_wait"))
          => UNCHANGED <<client, temp_dir, dirs, loop, sess>>]_vars

\* C20: an acknowledgement callback that finds no registered Event for its key
\* (the message id for _on_publish, the topic of the userdata for _on_subscribe)
\* ends there: it goes on to no write, it does not raise, and the three
\* pending-operation maps and is_connected are as before.
C20_UnmatchedAckIsNoop ==
    [][\A c \in Clients, r \in pend \ pend' :
          (/\ r.c = c /\ tcb[c].pc = "idle"
           /\ IF r.k = "pub" THEN publish_events[r.mid] = 0
                             ELSE userdata[c] = NoTopic \/ subscribe_events[userdata[c]] = 0)
             => /\ tcb'[c].pc \notin {"pub_set", "sub_set"}
                /\ UNCHANGED <<subscribe_events, publish_events, publish_results,
                               is_connected, fired, raised, loop>>]_vars

\* C20's case: _on_publish ran for a message whose publish() had timed out and
\* cleaned up, and found nothing to set.
C20_Witness ==
    \E c \in Clients :
       /\ tcb[c].pc = "pub_flag" /\ tcb[c].sn \notin fired
       /\ publish_events[tcb[c].mid] = 0 /\ publish_results[tcb[c].mid] = "none"
       /\ \A t \in Tasks : task[t].pc = "idle"

\* C21: when the transport refuses a subscribe request synchronously (a
\* non-success result, here MQTT_ERR_NO_CONN of a Client without a socket),
\* subscribe() returns false in that same step, without waiting, and no entry
\* for the topic is left in _subscribe_events.
C21_RefusedSubscribeRollsBack ==
    [][(ev'.op = "subscribe" /\ ev'.call /\ Connected /\ ~HasSocket(client))
          => /\ ev'.ret = "false"
             /\ subscribe_events'[ev'.loc.topic] = 0
             /\ UNCHANGED <<task, pend>>]_vars

\* C21's case: subscribe() passed the connected test and returned false at once.
C21_Witness == ev.op = "subscribe" /\ ev.call /\ ev.ret = "false" /\ ~HasSocket(client)

\* C22: no callback raises into the transport's loop thread, whatever the caller
\* does between the callback's steps.
C22_NoCallbackRaises == raised = {}

\* C23: connect() returns true only after a successful _on_connect that ran
\* during the call: it never returns true in the very next step after it was
\* called, no callback having run in between.
C23_TrueNeedsOwnAck ==
    [][~(/\ ev.op = "connect" /\ ev.call /\ ev.ret = "-"
         /\ ev'.op = "connect" /\ ev'.t = ev.t /\ ~ev'.call /\ ev'.ret = "true")]_vars

\* C24: once connect() has returned false by its timeout with is_connected
\* false, the next step, a late acknowledgement included, does not make
\* is_connected true.
C24_FailedAttemptStaysDisconnected ==
    [][(ev.op = "connect" /\ ev.ret = "false" /\ ev.loc.pc = "conn_wait" /\ ~is_connected)
          => ~is_connected']_vars
====
